---- MODULE Spec2Model ----
(***************************************************************************)
(* A model of the eCourts scraper (ecourts.py) and of the desktop form     *)
(* that drives it (UI.py).                                                 *)
(*                                                                         *)
(* Strings are sequences of tokens.  A token is one character ("a", "A",   *)
(* "1", " ", "|", "/") or one word the code looks for as a whole ("CNR",   *)
(* ".pdf", "cause", ...); substring tests are made on token boundaries.    *)
(* Python dictionaries are functions whose DOMAIN is the set of keys that  *)
(* are present.  Python's None is the record PyNone.                       *)
(***************************************************************************)
EXTENDS Integers, Sequences, FiniteSets, TLC

VARIABLES pc, call, args, net, ret, reqs, output, ui_output, writes, file, downloads

vars == <<pc, call, args, net, ret, reqs, output, ui_output, writes, file, downloads>>

\* ------------------------------------------------------------------------
\* Bounds of the model
\* ------------------------------------------------------------------------
MaxLen == 4        \* longest cause-list document handed to check_listing_in_causelist
MaxElems == 2      \* most elements of a fetched HTML page

\* ------------------------------------------------------------------------
\* Python values and string operations
\* ------------------------------------------------------------------------
PyNone == [py |-> "None"]

Min(a, b) == IF a < b THEN a ELSE b

\* str.lower(), one token at a time
LowerTok(c) ==
  CASE c = "A" -> "a"
    [] c = "CNR" -> "cnr"
    [] c = "Crl" -> "crl"
    [] c = "CRL" -> "crl"
    [] c = "Cause" -> "cause"
    [] c = "Cause List" -> "cause list"
    [] c = "Listed" -> "listed"
    [] c = ".PDF" -> ".pdf"
    [] OTHER -> c

Lower(s) == [i \in 1..Len(s) |-> LowerTok(s[i])]

\* sub in s
Contains(s, sub) ==
  \E i \in 0..(Len(s) - Len(sub)) : SubSeq(s, i + 1, i + Len(sub)) = sub

\* s.startswith(pre), s.endswith(suf)
StartsWith(s, pre) == Len(pre) <= Len(s) /\ SubSeq(s, 1, Len(pre)) = pre

EndsWith(s, suf) ==
  Len(suf) <= Len(s) /\ SubSeq(s, Len(s) - Len(suf) + 1, Len(s)) = suf

IsSpace(c) == c = " "

\* s.strip()
RECURSIVE LStrip(_)
LStrip(s) == IF s /= <<>> /\ IsSpace(Head(s)) THEN LStrip(Tail(s)) ELSE s

RECURSIVE RStrip(_)
RStrip(s) ==
  IF s /= <<>> /\ IsSpace(s[Len(s)]) THEN RStrip(SubSeq(s, 1, Len(s) - 1)) ELSE s

Strip(s) == RStrip(LStrip(s))

\* s.split(sep) with a one-token separator: always at least one piece
RECURSIVE SplitFrom(_, _, _)
SplitFrom(s, sep, cur) ==
  IF s = <<>> THEN <<cur>>
  ELSE IF Head(s) = sep THEN <<cur>> \o SplitFrom(Tail(s), sep, <<>>)
  ELSE SplitFrom(Tail(s), sep, Append(cur, Head(s)))

Split(s, sep) == SplitFrom(s, sep, <<>>)

\* s.split(): pieces between runs of whitespace, no empty piece
SplitWs(s) == SelectSeq(SplitFrom(s, " ", <<>>), LAMBDA p : p /= <<>>)

\* sep.join(pieces)
RECURSIVE Join(_, _)
Join(pieces, sep) ==
  IF pieces = <<>> THEN <<>>
  ELSE IF Len(pieces) = 1 THEN pieces[1]
  ELSE pieces[1] \o <<sep>> \o Join(Tail(pieces), sep)

Digits == {"1", "10", "2023"}

\* tok.isdigit()
IsDigit(tok) == tok /= <<>> /\ \A i \in 1..Len(tok) : tok[i] \in Digits

\* ------------------------------------------------------------------------
\* check_listing_in_causelist
\* ------------------------------------------------------------------------
\* BeautifulSoup(html).get_text(separator="|", strip=True) of a document whose
\* text nodes are separated by tags (the token "<t>"): every text node is
\* stripped, the empty ones are dropped, the rest is joined with "|".
GetText(html) ==
  Join(SelectSeq([i \in 1..Len(Split(html, "<t>")) |-> Strip(Split(html, "<t>")[i])],
                 LAMBDA n : n /= <<>>), "|")

\* next((t for t in tokens if t.isdigit()), None) or "?"
RECURSIVE FirstDigitTok(_)
FirstDigitTok(tokens) ==
  IF tokens = <<>> THEN <<"?">>
  ELSE IF IsDigit(Head(tokens)) THEN Head(tokens)
  ELSE FirstDigitTok(Tail(tokens))

\* for line in text.split("|"): if needle in line: ... return   (0: loop ends)
RECURSIVE FirstLineWith(_, _, _)
FirstLineWith(lines, needle, i) ==
  IF i > Len(lines) THEN 0
  ELSE IF Contains(lines[i], needle) THEN i
  ELSE FirstLineWith(lines, needle, i + 1)

ListingMatch(line) ==
  [serial |-> FirstDigitTok(SplitWs(line)), court |-> <<"?">>, line |-> line]

\* the first if of check_listing_in_causelist: the search for the identifier
ListingByCnr(text, case_identifiers) ==
  LET lines == Split(text, "|")
      hasCnr == "cnr" \in DOMAIN case_identifiers /\ case_identifiers["cnr"] /= <<>>
      cnr == Lower(case_identifiers["cnr"])
  IN IF hasCnr /\ Contains(text, cnr) /\ FirstLineWith(lines, cnr, 1) /= 0
     THEN ListingMatch(lines[FirstLineWith(lines, cnr, 1)])
     ELSE PyNone

\* the second if: the search for "number/year"
ListingByNumberYear(text, case_identifiers) ==
  LET lines == Split(text, "|")
      hasNY == "number" \in DOMAIN case_identifiers /\ "year" \in DOMAIN case_identifiers
      needle == Lower(case_identifiers["number"] \o <<"/">> \o case_identifiers["year"])
  IN IF hasNY /\ Contains(text, needle) /\ FirstLineWith(lines, needle, 1) /= 0
     THEN ListingMatch(lines[FirstLineWith(lines, needle, 1)])
     ELSE PyNone

\* as check_listing_in_causelist with the second if written as an elif of the first
check_listing_elif(causelist_html, case_identifiers) ==
  LET text == Lower(GetText(causelist_html))
  IN IF "cnr" \in DOMAIN case_identifiers /\ case_identifiers["cnr"] /= <<>>
     THEN ListingByCnr(text, case_identifiers)
     ELSE ListingByNumberYear(text, case_identifiers)

\* check_listing_in_causelist: the first search returns from inside its loop;
\* when it returns nothing the second search runs
check_listing_in_causelist(causelist_html, case_identifiers) ==
  LET text == Lower(GetText(causelist_html))
  IN IF ListingByCnr(text, case_identifiers) /= PyNone
     THEN ListingByCnr(text, case_identifiers)
     ELSE ListingByNumberYear(text, case_identifiers)

\* the documents and identifiers check_listing_in_causelist is applied to
ListingAlphabet == {"a", "A", "1", " ", "/", "<t>"}

RECURSIVE SeqsUpTo(_, _)
SeqsUpTo(S, n) ==
  IF n = 0 THEN {<<>>}
  ELSE SeqsUpTo(S, n - 1) \cup
       {Append(s, c) : s \in {t \in SeqsUpTo(S, n - 1) : Len(t) = n - 1}, c \in S}

ListingDocs == SeqsUpTo(ListingAlphabet, MaxLen)

ListingCnrs == {<<>>, <<"a">>, <<"A">>, <<"1">>, <<"a", "|">>}
ListingNumbers == {<<"1">>}
ListingYears == {<<"A">>}

\* every dictionary over the keys cnr, number, year, each key present or absent
ListingIdentifiers ==
  {[k \in keys |-> full[k]] :
     keys \in SUBSET {"cnr", "number", "year"},
     full \in [cnr : ListingCnrs, number : ListingNumbers, year : ListingYears]}

\* ------------------------------------------------------------------------
\* Dynamically typed values: a dictionary is a function from its keys, any
\* other value carries its type in the field py
\* ------------------------------------------------------------------------
NoDict == [k \in {} |-> PyNone]

PyList(items) == [py |-> "list", items |-> items]
PyStr(v) == [py |-> "str", v |-> v]
PyInt(v) == [py |-> "int", v |-> v]

IsDict(v) == "py" \notin DOMAIN v

\* bool(v)
Truthy(v) ==
  IF IsDict(v) THEN DOMAIN v /= {}
  ELSE CASE v.py = "None" -> FALSE
         [] v.py = "list" -> v.items /= <<>>
         [] v.py = "str" -> v.v /= <<>>
         [] v.py = "int" -> v.v /= 0

\* d.get(key) of a dictionary
DictGet(d, key) == IF key \in DOMAIN d THEN d[key] ELSE PyNone

\* ------------------------------------------------------------------------
\* Transport
\* ------------------------------------------------------------------------
BASE == <<"https:", "//services.ecourts.gov.in", "/", "ecourtindia_v6", "/">>

Schemes == {"http:", "https:"}
Netlocs == {"//h", "//services.ecourts.gov.in"}
Queries == {"?q"}

RECURSIVE LastSlash(_, _)
LastSlash(url, i) == IF i = 0 \/ url[i] = "/" THEN i ELSE LastSlash(url, i - 1)

\* the base without its query
NoQuery(url) == SelectSeq(url, LAMBDA c : c \notin Queries)

\* urllib.parse.urljoin(base, href): an href with a scheme stands as it is, one
\* with a host takes the base's scheme, an absolute path takes scheme and host,
\* a query replaces the base's query, a relative path replaces the base's last
\* path segment, and an empty href is the base
urljoin(base, href) ==
  IF href = <<>> THEN base
  ELSE IF Head(href) \in Schemes THEN href
  ELSE IF Head(href) \in Netlocs THEN <<base[1]>> \o href
  ELSE IF Head(href) = "/" THEN <<base[1], base[2]>> \o href
  ELSE IF Head(href) \in Queries THEN NoQuery(base) \o href
  ELSE SubSeq(NoQuery(base), 1, LastSlash(NoQuery(base), Len(NoQuery(base)))) \o href

\* the outcomes of requests.get: a 2xx status, an error status, a timeout, a
\* connection error
Statuses == {"200", "404", "timeout", "connection_error"}

\* as safe_get without raise_for_status: an error status passes as a response
safe_get_unchecked(resp) == IF resp.status \in {"200", "404"} THEN resp ELSE PyNone

\* safe_get: the response when the request succeeded with a 2xx status, None
\* for a status raise_for_status rejects and for every fault of the transport
safe_get(resp) == IF resp.status = "200" THEN resp ELSE PyNone

\* ------------------------------------------------------------------------
\* Parsed HTML: a page is the sequence of its elements in document order,
\* each with a tag name, its attributes and its text
\* ------------------------------------------------------------------------
\* soup.find_all("a", href=True)
Anchors(page) ==
  SelectSeq(page, LAMBDA e : e.tag = "a" /\ "href" \in DOMAIN e.attrs)

\* soup.get_text(separator="|", strip=True)
PageText(page) ==
  Join(SelectSeq([i \in 1..Len(page) |-> Strip(page[i].text)],
                 LAMBDA n : n /= <<>>), "|")

\* soup.find(lambda t: t.name in ["h1", "h2", "h3"] and "CNR" in t.text): the
\* index of the first such element, 0 when there is none
RECURSIVE FindTitle(_, _)
FindTitle(page, i) ==
  IF i > Len(page) THEN 0
  ELSE IF page[i].tag \in {"h1", "h2", "h3"} /\ Contains(page[i].text, <<"CNR">>) THEN i
  ELSE FindTitle(page, i + 1)

RawLimit == 5000

\* as PdfLinks with the href appended as found, not joined to the base
RECURSIVE PdfLinksRaw(_)
PdfLinksRaw(anchors) ==
  IF anchors = <<>> THEN <<>>
  ELSE IF EndsWith(Lower(Head(anchors).attrs["href"]), <<".pdf">>)
       THEN <<Head(anchors).attrs["href"]>> \o PdfLinksRaw(Tail(anchors))
       ELSE PdfLinksRaw(Tail(anchors))

\* the loop collecting pdf_links in search_by_cnr
RECURSIVE PdfLinks(_)
PdfLinks(anchors) ==
  IF anchors = <<>> THEN <<>>
  ELSE IF EndsWith(Lower(Head(anchors).attrs["href"]), <<".pdf">>)
       THEN <<urljoin(BASE, Head(anchors).attrs["href"])>> \o PdfLinks(Tail(anchors))
       ELSE PdfLinks(Tail(anchors))

\* the info dictionary search_by_cnr builds from the fallback page
CnrInfo(page) ==
  LET title == FindTitle(page, 1)
      pdf_links == PdfLinks(Anchors(page))
      texts == PageText(page)
      mentions == \/ Contains(Lower(texts), <<"cause list">>)
                  \/ Contains(Lower(texts), <<"listed">>)
      keys == (IF title /= 0 THEN {"title"} ELSE {})
              \cup (IF pdf_links /= <<>> THEN {"pdf_links"} ELSE {})
              \cup (IF mentions THEN {"page_mentions_listing"} ELSE {})
      all == [title |-> IF title /= 0 THEN Strip(page[title].text) ELSE <<>>,
              pdf_links |-> PyList(pdf_links),
              page_mentions_listing |-> TRUE]
  IN [k \in keys |-> all[k]]

\* the HTML path of search_by_cnr: the second request and the record built
\* from its page
CnrFallback(cnr, nw) ==
  LET r == safe_get(nw.casestatus_index)
  IN [ret |-> IF r = PyNone
              THEN [cnr |-> cnr, found |-> FALSE, raw |-> PyNone]
              ELSE [cnr |-> cnr, found |-> TRUE,
                    raw |-> PyStr(SubSeq(r.page, 1, Min(Len(r.page), RawLimit))),
                    info |-> CnrInfo(r.page)],
      reqs |-> <<"case_details", "casestatus_index">>]

\* as search_by_cnr with the decoding error not swallowed into the HTML path:
\* a malformed JSON body ends the search
search_by_cnr_strict(cnr, nw) ==
  LET r == safe_get(nw.case_details)
  IN IF r /= PyNone /\ StartsWith(r.content_type, <<"application/json">>)
     THEN [ret |-> IF r.json.decodes THEN r.json.value
                   ELSE [cnr |-> cnr, found |-> FALSE, raw |-> PyNone],
           reqs |-> <<"case_details">>]
     ELSE CnrFallback(cnr, nw)

\* search_by_cnr: the value returned and the requests issued, in order
search_by_cnr(cnr, nw) ==
  LET r == safe_get(nw.case_details)
  IN IF /\ r /= PyNone
        /\ StartsWith(r.content_type, <<"application/json">>)
        /\ r.json.decodes
     THEN [ret |-> r.json.value, reqs |-> <<"case_details">>]
     ELSE CnrFallback(cnr, nw)

\* as CaseResults with the case type compared as written, not lower-cased
RECURSIVE CaseResultsExact(_, _, _, _)
CaseResultsExact(anchors, case_type, number, year) ==
  IF anchors = <<>> THEN <<>>
  ELSE LET text == Strip(Head(anchors).text)
           rest == CaseResultsExact(Tail(anchors), case_type, number, year)
       IN IF \/ Contains(text, case_type)
             \/ Contains(text, number)
             \/ Contains(text, year)
          THEN <<[text |-> text, href |-> urljoin(BASE, Head(anchors).attrs["href"])]>> \o rest
          ELSE rest

\* the loop collecting results in search_by_case
RECURSIVE CaseResults(_, _, _, _)
CaseResults(anchors, case_type, number, year) ==
  IF anchors = <<>> THEN <<>>
  ELSE LET text == Strip(Head(anchors).text)
           rest == CaseResults(Tail(anchors), case_type, number, year)
       IN IF \/ Contains(Lower(text), Lower(case_type))
             \/ Contains(text, number)
             \/ Contains(text, year)
          THEN <<[text |-> text, href |-> urljoin(BASE, Head(anchors).attrs["href"])]>> \o rest
          ELSE rest

search_by_case(case_type, number, year, nw) ==
  LET r == safe_get(nw.case_index)
      results == CaseResults(Anchors(r.page), case_type, number, year)
  IN IF r = PyNone
     THEN [ret |-> [found |-> FALSE], reqs |-> <<"case_index">>]
     ELSE [ret |-> [found |-> results /= <<>>, results |-> results],
           reqs |-> <<"case_index">>]

\* the loop collecting pdfs in get_cause_list_for_court
RECURSIVE CausePdfs(_)
CausePdfs(anchors) ==
  IF anchors = <<>> THEN <<>>
  ELSE IF /\ Contains(Lower(Head(anchors).attrs["href"]), <<".pdf">>)
          /\ Contains(Lower(Head(anchors).attrs["href"]), <<"cause">>)
       THEN <<urljoin(BASE, Head(anchors).attrs["href"])>> \o CausePdfs(Tail(anchors))
       ELSE CausePdfs(Tail(anchors))

\* get_cause_list_for_court: the date is printed and otherwise unused
get_cause_list_for_court(date, nw) ==
  LET r == safe_get(nw.cause_list_index)
      pdfs == CausePdfs(Anchors(r.page))
  IN IF r = PyNone
     THEN [ret |-> [ok |-> FALSE, reason |-> "Failed to load cause list index"],
           reqs |-> <<"cause_list_index">>]
     ELSE IF pdfs /= <<>>
     THEN [ret |-> [ok |-> TRUE, pdfs |-> pdfs], reqs |-> <<"cause_list_index">>]
     ELSE [ret |-> [ok |-> FALSE,
                    reason |-> "No direct cause-list PDFs found (captcha likely required)"],
           reqs |-> <<"cause_list_index">>]

\* ------------------------------------------------------------------------
\* The responses and pages the functions are applied to
\* ------------------------------------------------------------------------
Elem(tag, hasHref, href, text) ==
  [tag |-> tag, attrs |-> [k \in (IF hasHref THEN {"href"} ELSE {}) |-> href], text |-> text]

Hrefs == {<<"d", ".pdf">>, <<"http:", "//h", "/", "d", ".PDF">>, <<"/", "d", ".pdf">>,
          <<"d", ".pdf", "?q">>, <<"d">>}

CnrElems ==
  {Elem(t, FALSE, <<>>, x) : t \in {"h2", "h4"}, x \in {<<" ", "CNR", "a">>, <<"cnr">>}}
  \cup {Elem("p", FALSE, <<>>, <<"Listed">>)}
  \cup {Elem("a", TRUE, h, <<"x">>) : h \in Hrefs}
  \cup {Elem("a", FALSE, <<>>, <<"x">>)}

CaseElems ==
  {Elem("a", b, <<"d">>, x) : b \in BOOLEAN,
       x \in {<<"CRL", " ", "x">>, <<" ", "10">>, <<"x", "2023">>, <<"x">>, <<>>}}
  \cup {Elem("p", FALSE, <<>>, <<"10">>)}

CauseElems ==
  {Elem("a", TRUE, h, <<"x">>) :
       h \in {<<"cause", ".pdf">>, <<"//h", "/", "Cause", ".PDF", "?q">>,
              <<"/", "d", ".pdf">>, <<"cause">>}}
  \cup {Elem("a", FALSE, <<>>, <<"cause", ".pdf">>), Elem("p", FALSE, <<>>, <<"x">>)}

Pages(elems) == SeqsUpTo(elems, MaxElems)

ContentTypes == {<<"application/json">>, <<"application/json", "; charset=utf-8">>,
                 <<"text/html">>, <<>>}

\* the outcome of r.json(): it raises, or it yields the decoded value
Malformed == [decodes |-> FALSE, value |-> PyNone]
Decoded(v) == [decodes |-> TRUE, value |-> v]

\* the bodies search_by_cnr is applied to, and the further shapes main meets
CnrJsonBodies == {Malformed, Decoded(PyNone), Decoded([cnr |-> <<"A">>, found |-> TRUE])}

JsonBodies ==
  CnrJsonBodies \cup
  {Decoded(PyList(<<>>)), Decoded(NoDict),
   Decoded([info |-> PyStr(<<"x">>)]),
   Decoded([info |-> [pdf_links |-> PyInt(5)]]),
   Decoded([info |-> [pdf_links |-> PyList(<<<<"http:", "//h", "/", "d", ".pdf">> >>)]])}

Response(status, ctype, json, page, text) ==
  [status |-> status, content_type |-> ctype, json |-> json, page |-> page, text |-> text]

NoResponse == Response("timeout", <<>>, Malformed, <<>>, <<>>)

HtmlResponse(status, page) == Response(status, <<"text/html">>, Malformed, page, <<>>)

\* the first responses of search_by_cnr: a fault, which carries no body, or a
\* response with its content type and body
CnrDetails ==
  {Response(st, <<>>, Malformed, <<>>, <<>>) : st \in Statuses \ {"200"}}
  \cup {Response("200", ct, j, <<>>, <<>>) : ct \in ContentTypes, j \in CnrJsonBodies}

Net(details, index, case, cause, pdf, doc) ==
  [case_details |-> details, casestatus_index |-> index, case_index |-> case,
   cause_list_index |-> cause, pdf |-> pdf, doc |-> doc]


Init ==
  /\ pc = "idle"
  /\ call = "none"
  /\ args = NoDict
  /\ net = NoDict
  /\ ret = PyNone
  /\ reqs = <<>>
  /\ output = NoDict
  /\ ui_output = NoDict
  /\ writes = 0
  /\ file = PyNone
  /\ downloads = <<>>

CheckListing ==
  /\ pc = "idle"
  /\ \E html \in ListingDocs, ids \in ListingIdentifiers :
       /\ args' = [causelist_html |-> html, case_identifiers |-> ids]
       /\ ret' = check_listing_in_causelist(html, ids)
  /\ call' = "check_listing_in_causelist"
  /\ pc' = "returned"
  /\ net' = NoDict
  /\ reqs' = <<>>
  /\ UNCHANGED <<output, ui_output, writes, file, downloads>>

CallSearchByCnr ==
  /\ pc = "idle"
  /\ \E cnr \in {<<"a">>}, details \in CnrDetails, s2 \in Statuses, page \in Pages(CnrElems) :
       LET nw == Net(details, HtmlResponse(s2, page),
                     NoResponse, NoResponse, NoResponse, NoResponse)
       IN /\ args' = [cnr |-> cnr]
          /\ net' = nw
          /\ ret' = search_by_cnr(cnr, nw).ret
          /\ reqs' = search_by_cnr(cnr, nw).reqs
  /\ call' = "search_by_cnr"
  /\ pc' = "returned"
  /\ UNCHANGED <<output, ui_output, writes, file, downloads>>

CallSearchByCase ==
  /\ pc = "idle"
  /\ \E case_type \in {<<"Crl">>, <<"z">>}, number \in {<<"10">>}, year \in {<<"2023">>, <<"9">>},
        s \in Statuses, page \in Pages(CaseElems) :
       LET nw == Net(NoResponse, NoResponse, HtmlResponse(s, page),
                     NoResponse, NoResponse, NoResponse)
       IN /\ args' = [case_type |-> case_type, number |-> number, year |-> year]
          /\ net' = nw
          /\ ret' = search_by_case(case_type, number, year, nw).ret
          /\ reqs' = search_by_case(case_type, number, year, nw).reqs
  /\ call' = "search_by_case"
  /\ pc' = "returned"
  /\ UNCHANGED <<output, ui_output, writes, file, downloads>>

CallGetCauseList ==
  /\ pc = "idle"
  /\ \E date \in {"today", "tomorrow"}, s \in Statuses, page \in Pages(CauseElems) :
       LET nw == Net(NoResponse, NoResponse, NoResponse, HtmlResponse(s, page),
                     NoResponse, NoResponse)
       IN /\ args' = [date |-> date]
          /\ net' = nw
          /\ ret' = get_cause_list_for_court(date, nw).ret
          /\ reqs' = get_cause_list_for_court(date, nw).reqs
  /\ call' = "get_cause_list_for_court"
  /\ pc' = "returned"
  /\ UNCHANGED <<output, ui_output, writes, file, downloads>>

\* ------------------------------------------------------------------------
\* main (ecourts.py) and ECourtsGUI.run_search (UI.py)
\* ------------------------------------------------------------------------
Put(d, key, value) == [k \in DOMAIN d \cup {key} |-> IF k = key THEN value ELSE d[k]]

\* if args.cnr / elif args.case
CnrMode(a) == "cnr" \in DOMAIN a /\ a["cnr"] /= <<>>
CaseMode(a) == ~CnrMode(a) /\ "case" \in DOMAIN a

\* the search stage: the query, the result of the search and its requests
MainSearchStage(a, nw, out) ==
  IF CnrMode(a)
  THEN [output |-> Put(Put(out, "query", [cnr |-> a["cnr"]]), "results",
                       search_by_cnr(a["cnr"], nw).ret),
        res |-> search_by_cnr(a["cnr"], nw).ret,
        reqs |-> search_by_cnr(a["cnr"], nw).reqs]
  ELSE IF CaseMode(a)
  THEN [output |-> Put(Put(out, "query", [case_type |-> a["case"][1], number |-> a["case"][2],
                                          year |-> a["case"][3]]),
                       "results", search_by_case(a["case"][1], a["case"][2], a["case"][3], nw).ret),
        res |-> search_by_case(a["case"][1], a["case"][2], a["case"][3], nw).ret,
        reqs |-> search_by_case(a["case"][1], a["case"][2], a["case"][3], nw).reqs]
  ELSE [output |-> out, res |-> PyNone, reqs |-> <<>>]

\* date = today if args.today else today + 1 day
ListingDate(a) == IF a["today"] THEN "today" ELSE "tomorrow"

\* the case_identifiers main passes to check_listing_in_causelist
MainIdentifiers(a) ==
  IF CnrMode(a) THEN [cnr |-> a["cnr"]]
  ELSE [number |-> a["case"][2], year |-> a["case"][3]]

\* if cl.get("ok") and cl.get("pdfs")
HasPdfs(cl) == DictGet(cl, "ok") = TRUE /\ "pdfs" \in DOMAIN cl /\ cl["pdfs"] /= <<>>

\* as MainListingStage with found_in_causelist set to None when the listing or
\* the PDF could not be had
MainListingStageNull(a, nw, out) ==
  IF (CnrMode(a) \/ CaseMode(a)) /\ (a["today"] \/ a["tomorrow"])
  THEN LET cl == get_cause_list_for_court(ListingDate(a), nw).ret
           r == safe_get(nw.pdf)
       IN IF HasPdfs(cl)
          THEN [output |-> Put(Put(out, "cause_list_attempt", cl), "found_in_causelist",
                               IF r /= PyNone
                               THEN check_listing_in_causelist(r.text, MainIdentifiers(a))
                               ELSE PyNone),
                reqs |-> <<"cause_list_index", "pdf">>]
          ELSE [output |-> Put(Put(out, "cause_list_attempt", cl), "found_in_causelist", PyNone),
                reqs |-> <<"cause_list_index">>]
  ELSE [output |-> out, reqs |-> <<>>]

\* the listing stage of main: cause_list_attempt, and found_in_causelist when the
\* first listed PDF was fetched
MainListingStage(a, nw, out) ==
  IF (CnrMode(a) \/ CaseMode(a)) /\ (a["today"] \/ a["tomorrow"])
  THEN LET cl == get_cause_list_for_court(ListingDate(a), nw).ret
           r == safe_get(nw.pdf)
       IN IF HasPdfs(cl)
          THEN [output |-> IF r /= PyNone
                           THEN Put(Put(out, "cause_list_attempt", cl), "found_in_causelist",
                                    check_listing_in_causelist(r.text, MainIdentifiers(a)))
                           ELSE Put(out, "cause_list_attempt", cl),
                reqs |-> <<"cause_list_index", "pdf">>]
          ELSE [output |-> Put(out, "cause_list_attempt", cl), reqs |-> <<"cause_list_index">>]
  ELSE [output |-> out, reqs |-> <<>>]

\* download_file: True when the URL was fetched and the file written
download_file(url, out_path, nw) ==
  [path |-> out_path,
   ok |-> url /= <<>> /\ Head(url) \in Schemes /\ safe_get(nw.doc) /= PyNone]

\* args.download_pdf and res.get("info") and res["info"].get("pdf_links"), and
\* the loop over enumerate(res["info"]["pdf_links"]): calling get on a value that
\* is no dictionary, or enumerating a number, raises
DownloadStage(flag, stem, res, nw) ==
  IF ~flag THEN [raised |-> FALSE, downloads |-> <<>>]
  ELSE IF ~IsDict(res) THEN [raised |-> TRUE, downloads |-> <<>>]
  ELSE IF ~Truthy(DictGet(res, "info")) THEN [raised |-> FALSE, downloads |-> <<>>]
  ELSE IF ~IsDict(res["info"]) THEN [raised |-> TRUE, downloads |-> <<>>]
  ELSE IF ~Truthy(DictGet(res["info"], "pdf_links")) THEN [raised |-> FALSE, downloads |-> <<>>]
  ELSE IF res["info"]["pdf_links"].py /= "list" THEN [raised |-> TRUE, downloads |-> <<>>]
  ELSE [raised |-> FALSE,
        downloads |-> [i \in 1..Len(res["info"]["pdf_links"].items) |->
                         download_file(res["info"]["pdf_links"].items[i],
                                       [dir |-> "downloads", stem |-> stem, n |-> i], nw)]]

\* the --causelist stage: extras.cause_list, and one download per listed PDF
MainExtrasStage(a, nw, out) ==
  IF a["causelist"]
  THEN LET cl == get_cause_list_for_court("today", nw).ret
       IN [output |-> Put(out, "extras", [cause_list |-> cl]),
           reqs |-> <<"cause_list_index">>,
           downloads |-> IF HasPdfs(cl)
                         THEN [i \in 1..Len(cl["pdfs"]) |->
                                 download_file(cl["pdfs"][i],
                                               [dir |-> "cause_lists", stem |-> <<"cause_list">>,
                                                n |-> i], nw)]
                         ELSE <<>>]
  ELSE [output |-> out, reqs |-> <<>>, downloads |-> <<>>]

\* the command lines and the server responses main runs against
MainArgs ==
  {[cnr |-> c, today |-> t, tomorrow |-> m, causelist |-> l, download_pdf |-> d,
    out |-> "results.json"] :
       c \in {<<"A">>, <<>>}, t \in BOOLEAN, m \in BOOLEAN, l \in BOOLEAN, d \in BOOLEAN}
  \cup
  {[case |-> <<<<"Crl">>, <<"10">>, <<"2023">>>>, today |-> t, tomorrow |-> m,
    causelist |-> l, download_pdf |-> d, out |-> "results.json"] :
       t \in BOOLEAN, m \in BOOLEAN, l \in BOOLEAN, d \in BOOLEAN}

MainDetails ==
  {NoResponse, HtmlResponse("200", <<>>)}
  \cup {Response("200", <<"application/json">>, j, <<>>, <<>>) : j \in JsonBodies}

MainIndexes ==
  {NoResponse, HtmlResponse("200", <<Elem("p", FALSE, <<>>, <<"x">>)>>),
   HtmlResponse("200", <<Elem("h1", FALSE, <<>>, <<"CNR", " ", "A">>),
                         Elem("a", TRUE, <<"d", ".pdf">>, <<"x">>)>>)}

MainCaseIndexes ==
  {NoResponse, HtmlResponse("200", <<Elem("a", TRUE, <<"d">>, <<"x">>)>>),
   HtmlResponse("200", <<Elem("a", TRUE, <<"d">>, <<"CRL", " ", "10">>)>>)}

MainCauseIndexes ==
  {NoResponse, HtmlResponse("404", <<>>), HtmlResponse("200", <<Elem("a", TRUE, <<"d">>, <<"x">>)>>),
   HtmlResponse("200", <<Elem("a", TRUE, <<"cause", ".pdf">>, <<"x">>)>>)}

MainPdfs ==
  {NoResponse,
   Response("200", <<>>, Malformed, <<>>, <<"x", "<t>", "A", " ", "1", "<t>", "10", "/", "2023">>),
   Response("200", <<>>, Malformed, <<>>, <<"x", " ", "1">>)}

MainDocs == {NoResponse, Response("200", <<>>, Malformed, <<>>, <<"x">>)}

MainNets(a) ==
  {Net(d, i, c, l, p, f) :
     d \in (IF CnrMode(a) THEN MainDetails ELSE {NoResponse}),
     i \in (IF CnrMode(a) THEN MainIndexes ELSE {NoResponse}),
     c \in (IF CaseMode(a) THEN MainCaseIndexes ELSE {NoResponse}),
     l \in MainCauseIndexes, p \in MainPdfs, f \in MainDocs}

\* output = {"query": {}, "results": None}
MainStart ==
  /\ pc = "idle"
  /\ \E a \in MainArgs :
       /\ args' = a
       /\ net' \in MainNets(a)
  /\ call' = "main"
  /\ output' = [query |-> NoDict, results |-> PyNone]
  /\ pc' = "search"
  /\ UNCHANGED <<ret, reqs, ui_output, writes, file, downloads>>

MainSearch ==
  /\ pc = "search"
  /\ output' = MainSearchStage(args, net, output).output
  /\ ret' = MainSearchStage(args, net, output).res
  /\ reqs' = reqs \o MainSearchStage(args, net, output).reqs
  /\ pc' = "listing"
  /\ UNCHANGED <<call, args, net, ui_output, writes, file, downloads>>

MainListing ==
  /\ pc = "listing"
  /\ output' = MainListingStage(args, net, output).output
  /\ reqs' = reqs \o MainListingStage(args, net, output).reqs
  /\ pc' = "download"
  /\ UNCHANGED <<call, args, net, ret, ui_output, writes, file, downloads>>

\* the download block stands in the --cnr branch only
MainDownload ==
  /\ pc = "download"
  /\ LET d == DownloadStage(CnrMode(args) /\ args["download_pdf"],
                            IF CnrMode(args) THEN args["cnr"] ELSE <<>>, ret, net)
     IN /\ downloads' = downloads \o d.downloads
        /\ pc' = IF d.raised THEN "raised" ELSE "extras"
  /\ UNCHANGED <<call, args, net, ret, reqs, output, ui_output, writes, file>>

MainExtras ==
  /\ pc = "extras"
  /\ output' = MainExtrasStage(args, net, output).output
  /\ reqs' = reqs \o MainExtrasStage(args, net, output).reqs
  /\ downloads' = downloads \o MainExtrasStage(args, net, output).downloads
  /\ pc' = "write"
  /\ UNCHANGED <<call, args, net, ret, ui_output, writes, file>>

\* write_json(args.out, output)
MainWrite ==
  /\ pc = "write"
  /\ file' = output
  /\ writes' = writes + 1
  /\ pc' = "done"
  /\ UNCHANGED <<call, args, net, ret, reqs, output, ui_output, downloads>>

\* the entries and check boxes of the form hold what the command line held
Entry(a, i) ==
  IF i = 0 THEN (IF "cnr" \in DOMAIN a THEN Strip(a["cnr"]) ELSE <<>>)
  ELSE IF "case" \in DOMAIN a THEN Strip(a["case"][i]) ELSE <<>>

\* ECourtsGUI.run_search: what the form shows, and the dialog it raises
run_search(a, nw) ==
  LET cnr == Entry(a, 0)
      case_type == Entry(a, 1)
      number == Entry(a, 2)
      year == Entry(a, 3)
      out0 == [query |-> NoDict, results |-> PyNone]
      listed == a["today"] \/ a["tomorrow"]
      cl == get_cause_list_for_court(ListingDate(a), nw).ret
      res == search_by_cnr(cnr, nw).ret
      out1 == Put(Put(out0, "query", [cnr |-> cnr]), "results", res)
      out2 == IF ~listed THEN out1
              ELSE IF HasPdfs(cl)
              THEN Put(Put(out1, "cause_list_attempt", cl), "found_in_causelist",
                       check_listing_in_causelist(cl["pdfs"][1], [cnr |-> cnr]))
              ELSE Put(out1, "cause_list_attempt", cl)
      cres == search_by_case(case_type, number, year, nw).ret
      cout1 == Put(Put(out0, "query", [case_type |-> case_type, number |-> number,
                                       year |-> year]), "results", cres)
      cout2 == IF listed THEN Put(cout1, "cause_list_attempt", cl) ELSE cout1
  IN IF cnr /= <<>>
     THEN IF DownloadStage(a["download_pdf"], cnr, res, nw).raised
          THEN [shown |-> PyNone, dialog |-> "Error"]
          ELSE [shown |-> out2, dialog |-> "none"]
     ELSE IF case_type /= <<>> /\ number /= <<>> /\ year /= <<>>
     THEN [shown |-> cout2, dialog |-> "none"]
     ELSE [shown |-> PyNone, dialog |-> "Input Error"]

\* the same query and options entered in the form, against the same responses
UIRunSearch ==
  /\ pc \in {"done", "raised"}
  /\ ui_output' = run_search(args, net)
  /\ pc' = "ui_done"
  /\ UNCHANGED <<call, args, net, ret, reqs, output, writes, file, downloads>>

Next ==
  \/ CheckListing
  \/ CallSearchByCnr
  \/ CallSearchByCase
  \/ CallGetCauseList
  \/ MainStart
  \/ MainSearch
  \/ MainListing
  \/ MainDownload
  \/ MainExtras
  \/ MainWrite
  \/ UIRunSearch

Spec == Init /\ [][Next]_vars

\* ------------------------------------------------------------------------
\* Notions the properties are stated with
\* ------------------------------------------------------------------------
Returned(f) == pc = "returned" /\ call = f

\* every request the call issued met a fault
AllFaulted == \A i \in 1..Len(reqs) : net[reqs[i]].status /= "200"

\* the lines of a listing: its flattened text cut at the pipes
ListingLines(html) == Split(GetText(html), "|")

OccursInLine(html, needle) ==
  \E i \in 1..Len(ListingLines(html)) : Contains(Lower(ListingLines(html)[i]), Lower(needle))

CnrSupplied(ids) == "cnr" \in DOMAIN ids /\ ids["cnr"] /= <<>>
NumberYearSupplied(ids) == "number" \in DOMAIN ids /\ "year" \in DOMAIN ids
NumberYear(ids) == ids["number"] \o <<"/">> \o ids["year"]

\* the j-th smallest member of a set of positions
Nth(S, j) == CHOOSE i \in S : Cardinality({k \in S : k <= i}) = j

IsLink(e) == e.tag = "a" /\ "href" \in DOMAIN e.attrs

IsAbsolute(url) == Len(url) >= 2 /\ url[1] \in Schemes /\ url[2] \in Netlocs

MainRunning == call = "main" /\ pc \in {"search", "listing", "download", "extras", "write"}
MainEnded == call = "main" /\ pc \in {"done", "raised"}

C2_FoundOnlyWithSignal ==
  /\ Returned("search_by_cnr") /\ Len(reqs) = 2 /\ ret["found"]
       => "title" \in DOMAIN ret["info"]
  /\ Returned("search_by_case") /\ ret["found"]
       => "results" \in DOMAIN ret /\ ret["results"] /= <<>>

\* ------------------------------------------------------------------------
\* C3: every run of main ends by writing the output file exactly once, after
\* the search, listing, download and cause-list stages, whatever the responses
\* were.
\* ------------------------------------------------------------------------
C3_MainAlwaysWrites ==
  /\ MainRunning => writes = 0
  /\ MainEnded => writes = 1 /\ file = output

\* ------------------------------------------------------------------------
\* C4 as claimed: check_listing_in_causelist returns a match iff (a) a non-empty
\* identifier is supplied and occurs in some line, or (b) no identifier is
\* supplied, number and year are, and "number/year" occurs in some line.
\* ------------------------------------------------------------------------
C4_ElseBranch ==
  Returned("check_listing_in_causelist") =>
    LET html == args.causelist_html
        ids == args.case_identifiers
    IN ret /= PyNone <=>
         \/ CnrSupplied(ids) /\ OccursInLine(html, ids["cnr"])
         \/ /\ ~CnrSupplied(ids)
            /\ NumberYearSupplied(ids)
            /\ OccursInLine(html, NumberYear(ids))

\* C4 as amended: check_listing_in_causelist returns a match iff (a) a non-empty
\* identifier is supplied and occurs in some line, or (b) number and year are
\* supplied and "number/year" occurs in some line, whether or not an
\* identifier was supplied; both searches ignore case.
C4_FallThrough ==
  Returned("check_listing_in_causelist") =>
    LET html == args.causelist_html
        ids == args.case_identifiers
    IN ret /= PyNone <=>
         \/ CnrSupplied(ids) /\ OccursInLine(html, ids["cnr"])
         \/ NumberYearSupplied(ids) /\ OccursInLine(html, NumberYear(ids))

C4_Witness ==
  /\ Returned("check_listing_in_causelist")
  /\ CnrSupplied(args.case_identifiers)
  /\ ~OccursInLine(args.causelist_html, args.case_identifiers["cnr"])
  /\ NumberYearSupplied(args.case_identifiers)
  /\ ret /= PyNone

\* ------------------------------------------------------------------------
\* C5: for a non-empty identifier that occurs in the listing,
\* check_listing_in_causelist returns the first line of the listing that
\* contains it, as that line stands in the listing, with the first numeric
\* token of the line (or "?") as serial and "?" as court.
\* ------------------------------------------------------------------------
C5_LineOfTheListing ==
  Returned("check_listing_in_causelist")
    /\ CnrSupplied(args.case_identifiers)
    /\ OccursInLine(args.causelist_html, args.case_identifiers["cnr"])
  => LET lines == ListingLines(args.causelist_html)
         hits == {i \in 1..Len(lines) :
                    Contains(Lower(lines[i]), Lower(args.case_identifiers["cnr"]))}
         first == CHOOSE i \in hits : \A k \in hits : i <= k
         numeric == {j \in 1..Len(SplitWs(lines[first])) : IsDigit(SplitWs(lines[first])[j])}
     IN /\ ret /= PyNone
        /\ ret["line"] = lines[first]
        /\ ret["court"] = <<"?">>
        /\ ret["serial"] = IF numeric = {} THEN <<"?">>
                           ELSE SplitWs(lines[first])[CHOOSE j \in numeric : \A k \in numeric : j <= k]

\* ------------------------------------------------------------------------
\* C6: search_by_case keeps an anchor (an a element with an href) iff its
\* visible text contains the case type, ignoring case, or the number, or the
\* year; the results keep the order of the document, and found is true iff
\* there is a result.
\* ------------------------------------------------------------------------
C6_Kept(e) ==
  /\ IsLink(e)
  /\ \/ Contains(Lower(Strip(e.text)), Lower(args.case_type))
     \/ Contains(Strip(e.text), args.number)
     \/ Contains(Strip(e.text), args.year)

C6_CaseResults ==
  Returned("search_by_case") /\ net.case_index.status = "200" =>
    LET page == net.case_index.page
        kept == {i \in 1..Len(page) : C6_Kept(page[i])}
    IN /\ Len(ret["results"]) = Cardinality(kept)
       /\ \A j \in 1..Len(ret["results"]) :
            /\ ret["results"][j]["text"] = Strip(page[Nth(kept, j)].text)
            /\ ret["results"][j]["href"] = urljoin(BASE, page[Nth(kept, j)].attrs["href"])
       /\ ret["found"] <=> kept /= {}

C6_Witness ==
  /\ Returned("search_by_case")
  /\ net.case_index.status = "200"
  /\ args.case_type = <<"Crl">>
  /\ Len(net.case_index.page) = 2
  /\ Len(ret["results"]) = 1
  /\ ret["results"][1]["text"] = <<"CRL", " ", "x">>
  /\ ~IsLink(net.case_index.page[1])

\* ------------------------------------------------------------------------
\* C7: in search_by_cnr, a first response of JSON content type whose body
\* decodes is returned as decoded and no second request is made; when the body
\* is malformed the fallback request is made and the record returned is the one
\* returned had the first response been HTML.
\* ------------------------------------------------------------------------
C7_IsJson ==
  /\ net.case_details.status = "200"
  /\ StartsWith(net.case_details.content_type, <<"application/json">>)

C7_JsonFastPath ==
  Returned("search_by_cnr") /\ C7_IsJson =>
    IF net.case_details.json.decodes
    THEN ret = net.case_details.json.value /\ reqs = <<"case_details">>
    ELSE /\ reqs = <<"case_details", "casestatus_index">>
         /\ ret = search_by_cnr(args.cnr,
                                [net EXCEPT !.case_details = HtmlResponse("200", <<>>)]).ret

C7_Witness ==
  /\ Returned("search_by_cnr")
  /\ C7_IsJson
  /\ ~net.case_details.json.decodes
  /\ reqs = <<"case_details", "casestatus_index">>
  /\ ret["found"]
  /\ "title" \in DOMAIN ret["info"]

\* ------------------------------------------------------------------------
\* C8: the pdf_links search_by_cnr reports are the anchors whose href ends in
\* ".pdf", ignoring case: one entry per such anchor, in document order, each
\* the href resolved against the base URL and absolute.
\* ------------------------------------------------------------------------
C8_IsPdfAnchor(e) == IsLink(e) /\ EndsWith(Lower(e.attrs["href"]), <<".pdf">>)

C8_PdfLinks ==
  Returned("search_by_cnr") /\ Len(reqs) = 2 /\ net.casestatus_index.status = "200" =>
    LET page == net.casestatus_index.page
        pdf == {i \in 1..Len(page) : C8_IsPdfAnchor(page[i])}
        links == IF "pdf_links" \in DOMAIN ret["info"]
                 THEN ret["info"]["pdf_links"].items ELSE <<>>
    IN /\ Len(links) = Cardinality(pdf)
       /\ \A j \in 1..Len(links) :
            /\ links[j] = urljoin(BASE, page[Nth(pdf, j)].attrs["href"])
            /\ IsAbsolute(links[j])

C8_Witness ==
  /\ Returned("search_by_cnr")
  /\ Len(reqs) = 2
  /\ ret["found"]
  /\ "pdf_links" \in DOMAIN ret["info"]
  /\ ret["info"]["pdf_links"].items =
       << <<"http:", "//h", "/", "d", ".PDF">>,
          <<"https:", "//services.ecourts.gov.in", "/", "ecourtindia_v6", "/", "d", ".pdf">> >>

\* ------------------------------------------------------------------------
\* C9: for the same query, options and responses, the form's run_search and
\* main assemble equal values for the keys query, results, cause_list_attempt
\* and found_in_causelist.
\* ------------------------------------------------------------------------
C9_FormMatchesMain ==
  pc = "ui_done" /\ writes = 1 /\ ui_output.dialog = "none" =>
    \A k \in {"query", "results", "cause_list_attempt", "found_in_causelist"} :
      /\ k \in DOMAIN output <=> k \in DOMAIN ui_output.shown
      /\ k \in DOMAIN output /\ k \in DOMAIN ui_output.shown
           => output[k] = ui_output.shown[k]

\* ------------------------------------------------------------------------
\* C10: in the output main assembles, cause_list_attempt is present only if
\* --today or --tomorrow was given, and found_in_causelist only if
\* cause_list_attempt is present with ok = True and a non-empty pdfs list and
\* the first listed PDF was fetched; otherwise found_in_causelist is absent.
\* ------------------------------------------------------------------------
C10_StageKeys ==
  call = "main" =>
    /\ "cause_list_attempt" \in DOMAIN output => args["today"] \/ args["tomorrow"]
    /\ "found_in_causelist" \in DOMAIN output =>
         /\ "cause_list_attempt" \in DOMAIN output
         /\ output["cause_list_attempt"]["ok"] = TRUE
         /\ "pdfs" \in DOMAIN output["cause_list_attempt"]
         /\ output["cause_list_attempt"]["pdfs"] /= <<>>
         /\ net.pdf.status = "200"

C10_Witness ==
  /\ call = "main"
  /\ pc = "done"
  /\ "found_in_causelist" \in DOMAIN output
  /\ output["found_in_causelist"] = PyNone
====
